---- MODULE Spec2Model ----
(***************************************************************************)
(* Model of Tubes.py: the bread-mold pipeline (contrast stretching, HSV    *)
(* threshold, morphology, detection fusion) and the MainApp handlers that  *)
(* sequence it.                                                            *)
(*                                                                         *)
(* Images are records [w, h, px]; px is the row-major sequence of pixels.  *)
(* A colour pixel is kept in luminance/chroma form [y, h, s]: y is the Y   *)
(* channel that enhance_contrast_stretching rewrites, h and s the chroma   *)
(* that it leaves alone.  A mask pixel is 0 or 255.  Python's None is the  *)
(* record None.  Scores and the confidence threshold are in hundredths.    *)
(***************************************************************************)
EXTENDS Integers, Sequences, FiniteSets, TLC

VARIABLES current_step, current_image_path, current_image_original,
          current_image_processed, current_image_hsv_mask,
          current_image_morphed_mask, current_image_detection,
          detection_model, buttons, report,
          f_img, f_dets, f_thr, f_out,
          p_in, p_out

pipeline == <<current_step, current_image_original, current_image_processed,
              current_image_hsv_mask, current_image_morphed_mask,
              current_image_detection>>

appvars == <<current_step, current_image_path, current_image_original,
             current_image_processed, current_image_hsv_mask,
             current_image_morphed_mask, current_image_detection,
             detection_model, buttons, report>>

fusevars == <<f_img, f_dets, f_thr, f_out>>

\* Input and result of a pipeline function applied on its own.
purevars == <<p_in, p_out>>

vars == <<appvars, fusevars, purevars>>

None == [absent |-> TRUE]

NoPath == "<None>"

Max(a, b) == IF a > b THEN a ELSE b

Min(a, b) == IF a < b THEN a ELSE b

(***************************************************************************)
(* Bounds of the model.                                                    *)
(***************************************************************************)
MaxW == 2

MaxH == 2

MaxDets == 2

\* Largest mask of the morphology functions applied on their own.
MorphMaxW == 4

MorphMaxH == 2

\* Height of the tallest image on which the label position is examined.
LabelMaxH == 40

(***************************************************************************)
(* Images and masks.                                                       *)
(***************************************************************************)
Pix(yy, hh, ss) == [y |-> yy, h |-> hh, s |-> ss]

Img(ww, hh, p) == [w |-> ww, h |-> hh, px |-> p]

\* Blank colour image of the given size (used where only the shape matters).
BlankImage(ww, hh) == Img(ww, hh, [i \in 1..(ww * hh) |-> Pix(0, 0, 0)])

RECURSIVE SeqMin(_, _)
SeqMin(s, i) ==
    IF i = Len(s) THEN s[i] ELSE Min(s[i], SeqMin(s, i + 1))

RECURSIVE SeqMax(_, _)
SeqMax(s, i) ==
    IF i = Len(s) THEN s[i] ELSE Max(s[i], SeqMax(s, i + 1))

YChannel(img) == [i \in 1..Len(img.px) |-> img.px[i].y]

\* Mutant: the quotient is rounded to the nearest integer (half up).
StretchSample_Rounded(v, min_y, max_y) ==
    ((2 * (v - min_y) * 255 + (max_y - min_y)) \div (2 * (max_y - min_y))) % 256

\* (y - min_y) / (max_y - min_y) * 255, then .astype(np.uint8): truncation.
StretchSample(v, min_y, max_y) == (((v - min_y) * 255) \div (max_y - min_y)) % 256

\* Mutant: a zero range is replaced by 1 instead of skipping the stretch.
enhance_contrast_stretching_RangeAtLeastOne(img) ==
    IF img = None THEN None
    ELSE LET y     == YChannel(img)
             min_y == SeqMin(y, 1)
             max_y == SeqMax(y, 1)
             y_stretched == [i \in 1..Len(y) |->
                                StretchSample(y[i], min_y, min_y + Max(1, max_y - min_y))]
         IN  Img(img.w, img.h,
                 [i \in 1..Len(y) |-> Pix(y_stretched[i], img.px[i].h, img.px[i].s)])

enhance_contrast_stretching(img) ==
    IF img = None THEN None
    ELSE LET y     == YChannel(img)
             min_y == SeqMin(y, 1)
             max_y == SeqMax(y, 1)
             y_stretched == IF max_y - min_y = 0 THEN y
                            ELSE [i \in 1..Len(y) |-> StretchSample(y[i], min_y, max_y)]
         IN  Img(img.w, img.h,
                 [i \in 1..Len(y) |-> Pix(y_stretched[i], img.px[i].h, img.px[i].s)])

\* cv2.cvtColor(img, COLOR_BGR2HSV) on the luminance/chroma pixel.
BGR2HSV(p) == <<p.h, p.s, p.y>>

\* Mutant: the two bounds are put in order before the comparison.
InRange_Normalised(hsv, lower_hsv, upper_hsv) ==
    IF \A c \in 1..3 : /\ Min(lower_hsv[c], upper_hsv[c]) <= hsv[c]
                       /\ hsv[c] <= Max(lower_hsv[c], upper_hsv[c])
    THEN 255 ELSE 0

InRange(hsv, lower_hsv, upper_hsv) ==
    IF \A c \in 1..3 : lower_hsv[c] <= hsv[c] /\ hsv[c] <= upper_hsv[c]
    THEN 255 ELSE 0

apply_hsv_threshold(img, lower_hsv, upper_hsv) ==
    IF img = None THEN None
    ELSE Img(img.w, img.h,
             [i \in 1..Len(img.px) |-> InRange(BGR2HSV(img.px[i]), lower_hsv, upper_hsv)])

lower_hsv_default == <<40, 50, 30>>

upper_hsv_default == <<100, 255, 200>>

RECURSIVE CountFrom(_, _)
CountFrom(s, i) ==
    IF i > Len(s) THEN 0
    ELSE (IF s[i] # 0 THEN 1 ELSE 0) + CountFrom(s, i + 1)

\* np.count_nonzero(mask)
CountNonZero(mask) == CountFrom(mask.px, 1)

(***************************************************************************)
(* Morphology: rectangular kernel, anchor at its centre; pixels outside    *)
(* the image are ignored (OpenCV's default border value).                  *)
(***************************************************************************)
DEFAULT_KERNEL_SIZE == 5

KernelRadius == DEFAULT_KERNEL_SIZE \div 2

PxX(mask, i) == (i - 1) % mask.w

PxY(mask, i) == (i - 1) \div mask.w

Neighbours(mask, i) ==
    {j \in 1..Len(mask.px) :
        /\ PxX(mask, j) - PxX(mask, i) \in (0 - KernelRadius)..KernelRadius
        /\ PxY(mask, j) - PxY(mask, i) \in (0 - KernelRadius)..KernelRadius}

cv2_erode(mask) ==
    Img(mask.w, mask.h,
        [i \in 1..Len(mask.px) |->
            IF \A j \in Neighbours(mask, i) : mask.px[j] # 0 THEN 255 ELSE 0])

cv2_dilate(mask) ==
    Img(mask.w, mask.h,
        [i \in 1..Len(mask.px) |->
            IF \E j \in Neighbours(mask, i) : mask.px[j] # 0 THEN 255 ELSE 0])

\* Mutant: the erosion wrapper calls the dilation.
apply_morphology_erode_Dilates(mask) == IF mask = None THEN None ELSE cv2_dilate(mask)

apply_morphology_erode(mask) == IF mask = None THEN None ELSE cv2_erode(mask)

apply_morphology_dilate(mask) == IF mask = None THEN None ELSE cv2_dilate(mask)

apply_morphology_open(mask) ==
    IF mask = None THEN None ELSE cv2_dilate(cv2_erode(mask))

apply_morphology_close(mask) ==
    IF mask = None THEN None ELSE cv2_erode(cv2_dilate(mask))

MorphOps == {"erode", "dilate", "open", "close"}

morph_func(op, mask) ==
    CASE op = "erode"  -> apply_morphology_erode(mask)
      [] op = "dilate" -> apply_morphology_dilate(mask)
      [] op = "open"   -> apply_morphology_open(mask)
      [] op = "close"  -> apply_morphology_close(mask)

(***************************************************************************)
(* draw_detections_and_classify.  A class label is a sequence of           *)
(* characters; the annotated image is the input image together with the    *)
(* sequence of rectangle/label draw calls made on its copy.                *)
(***************************************************************************)
UpperToLower ==
    [A |-> "a", B |-> "b", C |-> "c", D |-> "d", E |-> "e", F |-> "f",
     G |-> "g", H |-> "h", I |-> "i", J |-> "j", K |-> "k", L |-> "l",
     M |-> "m", N |-> "n", O |-> "o", P |-> "p", Q |-> "q", R |-> "r",
     S |-> "s", T |-> "t", U |-> "u", V |-> "v", W |-> "w", X |-> "x",
     Y |-> "y", Z |-> "z"]

LowerChar(c) == IF c \in DOMAIN UpperToLower THEN UpperToLower[c] ELSE c

\* str.lower()
Lower(name) == [i \in 1..Len(name) |-> LowerChar(name[i])]

MoldNames ==
    { <<"m", "o", "l", "d">>,
      <<"m", "o", "u", "l", "d">>,
      <<"b", "r", "e", "a", "d", "_", "m", "o", "l", "d">>,
      <<"j", "a", "m", "u", "r">> }

\* Mutant: the label is compared without lower-casing it.
IsMoldName_CaseSensitive(obj_name) == obj_name \in MoldNames

IsMoldName(obj_name) == Lower(obj_name) \in MoldNames

\* Mutant: a score equal to the threshold is skipped too.
BelowThreshold_Inclusive(score, confidence_threshold) == score <= confidence_threshold

\* score < confidence_threshold: continue
BelowThreshold(score, confidence_threshold) == score < confidence_threshold

\* Mutant: the upper coordinates are clamped to the dimension, not dimension - 1.
ClipBox_Exclusive(img, bbox) ==
    << Max(0, bbox[1]), Max(0, bbox[2]),
       Min(img.w, bbox[3]), Min(img.h, bbox[4]) >>

ClipBox(img, bbox) ==
    << Max(0, bbox[1]), Max(0, bbox[2]),
       Min(img.w - 1, bbox[3]), Min(img.h - 1, bbox[4]) >>

\* Mutant: a box of width or height zero counts as valid.
BoxValid_NonStrict(box) == box[1] <= box[3] /\ box[2] <= box[4]

BoxValid(box) == box[1] < box[3] /\ box[2] < box[4]

\* Mutant: the label goes above the box from ymin - 5 = 10 on.
TextY_FromTen(ymin) == IF ymin - 5 >= 10 THEN ymin - 5 ELSE ymin + 15

TextY(ymin) == IF ymin - 5 > 10 THEN ymin - 5 ELSE ymin + 15

DrawCall(obj, box) ==
    [ box    |-> box,
      color  |-> IF IsMoldName(obj.name) THEN "red" ELSE "green",
      text   |-> <<obj.name, obj.score>>,
      text_x |-> box[1],
      text_y |-> TextY(box[2]) ]

\* Mutant: once a mold has been seen the remaining detections are ignored.
DrawStep_StopsAfterMold(img, obj, confidence_threshold, acc) ==
    IF acc.mold_detected \/ BelowThreshold(obj.score, confidence_threshold) THEN acc
    ELSE LET mold == acc.mold_detected \/ IsMoldName(obj.name)
             box  == ClipBox(img, obj.bbox)
         IN  [ mold_detected |-> mold,
               drawn |-> IF BoxValid(box)
                         THEN Append(acc.drawn, DrawCall(obj, box))
                         ELSE acc.drawn ]

\* One iteration of the loop body: acc = [mold_detected, drawn].
DrawStep(img, obj, confidence_threshold, acc) ==
    IF BelowThreshold(obj.score, confidence_threshold) THEN acc
    ELSE LET mold == acc.mold_detected \/ IsMoldName(obj.name)
             box  == ClipBox(img, obj.bbox)
         IN  [ mold_detected |-> mold,
               drawn |-> IF BoxValid(box)
                         THEN Append(acc.drawn, DrawCall(obj, box))
                         ELSE acc.drawn ]

RECURSIVE DrawLoop(_, _, _, _, _)
DrawLoop(img, dets, confidence_threshold, i, acc) ==
    IF i > Len(dets) THEN acc
    ELSE DrawLoop(img, dets, confidence_threshold, i + 1,
                  DrawStep(img, dets[i], confidence_threshold, acc))

draw_detections_and_classify(img_original, detection_results, confidence_threshold) ==
    IF detection_results = <<>>
    THEN [img_display |-> [base |-> img_original, drawn |-> <<>>],
          kualitas |-> "SEGAR"]
    ELSE LET acc == DrawLoop(img_original, detection_results, confidence_threshold, 1,
                             [mold_detected |-> FALSE, drawn |-> <<>>])
         IN  [img_display |-> [base |-> img_original, drawn |-> acc.drawn],
              kualitas |-> IF acc.mold_detected THEN "BERJAMUR" ELSE "SEGAR"]

CONFIDENCE_THRESHOLD == 50

(***************************************************************************)
(* The files the operator can pick, and what cv2.imread returns for each.  *)
(* All images are 4x2.  After stretching and thresholding:                 *)
(*   bread_partial: columns 0..2 set, column 3 unset;                      *)
(*   bread_uniform: every pixel set (uniform luminance, left unstretched); *)
(*   bread_clean:   no pixel set (hue outside the range);                  *)
(*   bread_speck:   a single set pixel.                                    *)
(***************************************************************************)
ImgPartial ==
    Img(4, 2, << Pix(100, 60, 100), Pix(120, 60, 100), Pix(140, 60, 100), Pix(10, 60, 100),
                 Pix(100, 60, 100), Pix(120, 60, 100), Pix(140, 60, 100), Pix(250, 60, 100) >>)

ImgUniform == Img(4, 2, [i \in 1..8 |-> Pix(100, 60, 100)])

ImgClean ==
    Img(4, 2, << Pix(50, 10, 100), Pix(90, 10, 100), Pix(130, 10, 100), Pix(200, 10, 100),
                 Pix(50, 10, 100), Pix(90, 10, 100), Pix(130, 10, 100), Pix(200, 10, 100) >>)

ImgSpeck ==
    Img(4, 2, << Pix(20, 10, 100), Pix(120, 60, 100), Pix(130, 10, 100), Pix(240, 10, 100),
                 Pix(20, 10, 100), Pix(90, 10, 100), Pix(130, 10, 100), Pix(240, 10, 100) >>)

Files == {"bread_partial.png", "bread_uniform.png", "bread_clean.png",
          "bread_speck.png", "corrupt.png"}

\* QFileDialog.getOpenFileName: a chosen file, or "" when the dialog is cancelled.
DialogResults == Files \cup {""}

\* cv2.imread: None for a file that cannot be decoded.
imread(file_name) ==
    CASE file_name = "bread_partial.png" -> ImgPartial
      [] file_name = "bread_uniform.png" -> ImgUniform
      [] file_name = "bread_clean.png"   -> ImgClean
      [] file_name = "bread_speck.png"   -> ImgSpeck
      [] OTHER                           -> None

(***************************************************************************)
(* Class labels and the detector's possible answers in the application.    *)
(***************************************************************************)
NameMold == <<"M", "o", "l", "d">>

NameJamur == <<"J", "A", "M", "U", "R">>

NameCrust == <<"c", "r", "u", "s", "t">>

NameBreadMold == <<"B", "r", "e", "a", "d", "_", "M", "o", "l", "d">>

Det(n, b, sc) == [name |-> n, bbox |-> b, score |-> sc]

\* What self.detection_model(img) can yield: a list of detections, or an exception.
DetectorRaises == [raises |-> TRUE, results |-> <<>>]

DetectorLists ==
    { <<>>,
      << Det(NameMold, <<0, 0, 2, 1>>, 90) >>,
      << Det(NameCrust, <<1, 0, 3, 1>>, 95) >>,
      << Det(NameMold, <<0, 0, 2, 1>>, 30) >>,
      << Det(NameJamur, <<-10, -10, 14, 12>>, 50), Det(NameCrust, <<1, 0, 3, 1>>, 95) >> }

DetectorOutcomes ==
    {[raises |-> FALSE, results |-> l] : l \in DetectorLists} \cup {DetectorRaises}

\* The loaded model object (YOLO(model_path)) with its class-name table.
YOLO == [names |-> <<NameMold, NameJamur, NameCrust>>]

(***************************************************************************)
(* MainApp.                                                                *)
(***************************************************************************)
Report(o, r) == [op |-> o, outcome |-> r]

\* Mutant: the detection button ignores whether a model is loaded.
set_button_states_NoModelCheck(step, hsv_mask, morphed_mask, model) ==
    [ pilih_gambar      |-> (step = 0),
      proses_contrast   |-> (step = 1),
      proses_hsv        |-> (step = 2),
      proses_morphology |-> (step >= 3 /\ hsv_mask # None /\ CountNonZero(hsv_mask) > 0),
      deteksi_jamur     |-> (step >= 3 \/ morphed_mask # None),
      reset_aplikasi    |-> (step >= 1) ]

\* Mutant: the detection button is enabled as soon as an image is loaded.
set_button_states_DetectAfterLoad(step, hsv_mask, morphed_mask, model) ==
    [ pilih_gambar      |-> (step = 0),
      proses_contrast   |-> (step = 1),
      proses_hsv        |-> (step = 2),
      proses_morphology |-> (step >= 3 /\ hsv_mask # None /\ CountNonZero(hsv_mask) > 0),
      deteksi_jamur     |-> ((step >= 1 \/ morphed_mask # None) /\ model # None),
      reset_aplikasi    |-> (step >= 1) ]

\* Mutant: the morphology button looks at the morphed mask when there is one.
set_button_states_MorphedCounts(step, hsv_mask, morphed_mask, model) ==
    [ pilih_gambar      |-> (step = 0),
      proses_contrast   |-> (step = 1),
      proses_hsv        |-> (step = 2),
      proses_morphology |-> (step >= 3 /\ hsv_mask # None /\
                             CountNonZero(IF morphed_mask # None THEN morphed_mask
                                          ELSE hsv_mask) > 0),
      deteksi_jamur     |-> ((step >= 3 \/ morphed_mask # None) /\ model # None),
      reset_aplikasi    |-> (step >= 1) ]

\* Mutant: the load button stays enabled at every step.
set_button_states_LoadAlways(step, hsv_mask, morphed_mask, model) ==
    [ pilih_gambar      |-> (step >= 0),
      proses_contrast   |-> (step = 1),
      proses_hsv        |-> (step = 2),
      proses_morphology |-> (step >= 3 /\ hsv_mask # None /\ CountNonZero(hsv_mask) > 0),
      deteksi_jamur     |-> ((step >= 3 \/ morphed_mask # None) /\ model # None),
      reset_aplikasi    |-> (step >= 1) ]

set_button_states(step, hsv_mask, morphed_mask, model) ==
    [ pilih_gambar      |-> (step = 0),
      proses_contrast   |-> (step = 1),
      proses_hsv        |-> (step = 2),
      proses_morphology |-> (step >= 3 /\ hsv_mask # None /\ CountNonZero(hsv_mask) > 0),
      deteksi_jamur     |-> ((step >= 3 \/ morphed_mask # None) /\ model # None),
      reset_aplikasi    |-> (step >= 1) ]

\* __init__: fields, initUI (set_button_states with no model yet), then
\* load_detection_model, which leaves detection_model None or sets it.
MainApp_init(model) ==
    /\ current_step = 0
    /\ current_image_original = None
    /\ current_image_processed = None
    /\ current_image_hsv_mask = None
    /\ current_image_morphed_mask = None
    /\ current_image_detection = None
    /\ current_image_path = NoPath
    /\ detection_model = model
    /\ buttons = set_button_states(0, None, None, None)
    /\ report = Report("init", IF model = None THEN "model_not_ready" ELSE "model_ready")

Init ==
    /\ \E model \in {None, YOLO} : MainApp_init(model)
    /\ f_img = None
    /\ f_dets = <<>>
    /\ f_thr = CONFIDENCE_THRESHOLD
    /\ f_out = None
    /\ p_in = None
    /\ p_out = None

action_step1_pilih_gambar(file_name) ==
    /\ IF file_name # ""
       THEN /\ current_image_path' = file_name
            /\ current_image_original' = imread(file_name)
            /\ IF imread(file_name) # None
               THEN /\ current_image_processed' = None
                    /\ current_image_hsv_mask' = None
                    /\ current_image_morphed_mask' = None
                    /\ current_image_detection' = None
                    /\ current_step' = 1
                    /\ buttons' = set_button_states(1, None, None, detection_model)
                    /\ report' = Report("load", "loaded")
               ELSE /\ current_step' = 0
                    /\ buttons' = set_button_states(0, current_image_hsv_mask,
                                                    current_image_morphed_mask, detection_model)
                    /\ report' = Report("load", "load_failed")
                    /\ UNCHANGED <<current_image_processed, current_image_hsv_mask,
                                   current_image_morphed_mask, current_image_detection>>
       ELSE /\ report' = Report("load", "cancelled")
            /\ IF current_image_original = None
               THEN /\ current_step' = 0
                    /\ buttons' = set_button_states(0, current_image_hsv_mask,
                                                    current_image_morphed_mask, detection_model)
               ELSE UNCHANGED <<current_step, buttons>>
            /\ UNCHANGED <<current_image_path, current_image_original,
                           current_image_processed, current_image_hsv_mask,
                           current_image_morphed_mask, current_image_detection>>
    /\ UNCHANGED <<detection_model, fusevars, purevars>>

action_step2_perbaiki_kualitas ==
    /\ IF current_image_original = None
       THEN /\ report' = Report("enhance", "no_image")
            /\ UNCHANGED <<current_step, current_image_processed, current_image_hsv_mask,
                           current_image_morphed_mask, current_image_detection, buttons>>
       ELSE LET enhanced_img == enhance_contrast_stretching(current_image_original)
            IN  IF enhanced_img # None
                THEN /\ current_image_processed' = enhanced_img
                     /\ current_step' = 2
                     /\ buttons' = set_button_states(2, current_image_hsv_mask,
                                                     current_image_morphed_mask, detection_model)
                     /\ current_image_hsv_mask' = None
                     /\ current_image_morphed_mask' = None
                     /\ current_image_detection' = None
                     /\ report' = Report("enhance", "done")
                ELSE /\ report' = Report("enhance", "failed")
                     /\ UNCHANGED <<current_step, current_image_processed,
                                    current_image_hsv_mask, current_image_morphed_mask,
                                    current_image_detection, buttons>>
    /\ UNCHANGED <<current_image_path, current_image_original, detection_model, fusevars, purevars>>

\* Mutant: the guard tests the original image instead of the enhanced one.
action_step3_GuardsOriginal ==
    /\ IF current_image_original = None
       THEN /\ report' = Report("hsv", "no_enhanced")
            /\ UNCHANGED <<current_step, current_image_hsv_mask,
                           current_image_morphed_mask, current_image_detection, buttons>>
       ELSE LET mask == apply_hsv_threshold(current_image_processed,
                                            lower_hsv_default, upper_hsv_default)
            IN  IF mask # None
                THEN /\ current_image_hsv_mask' = mask
                     /\ current_image_morphed_mask' = None
                     /\ current_step' = 3
                     /\ buttons' = set_button_states(3, mask, None, detection_model)
                     /\ current_image_detection' = None
                     /\ report' = Report("hsv", "done")
                ELSE /\ report' = Report("hsv", "failed")
                     /\ UNCHANGED <<current_step, current_image_hsv_mask,
                                    current_image_morphed_mask, current_image_detection,
                                    buttons>>
    /\ UNCHANGED <<current_image_path, current_image_original, current_image_processed,
                   detection_model, fusevars, purevars>>

\* Mutant: a new HSV mask does not reset the stored detection result.
action_step3_KeepsDetection ==
    /\ IF current_image_processed = None
       THEN /\ report' = Report("hsv", "no_enhanced")
            /\ UNCHANGED <<current_step, current_image_hsv_mask,
                           current_image_morphed_mask, current_image_detection, buttons>>
       ELSE LET mask == apply_hsv_threshold(current_image_processed,
                                            lower_hsv_default, upper_hsv_default)
            IN  /\ current_image_hsv_mask' = mask
                /\ current_image_morphed_mask' = None
                /\ current_step' = 3
                /\ buttons' = set_button_states(3, mask, None, detection_model)
                /\ report' = Report("hsv", "done")
                /\ UNCHANGED current_image_detection
    /\ UNCHANGED <<current_image_path, current_image_original, current_image_processed,
                   detection_model, fusevars, purevars>>

action_step3_hsv_threshold ==
    /\ IF current_image_processed = None
       THEN /\ report' = Report("hsv", "no_enhanced")
            /\ UNCHANGED <<current_step, current_image_hsv_mask,
                           current_image_morphed_mask, current_image_detection, buttons>>
       ELSE LET mask == apply_hsv_threshold(current_image_processed,
                                            lower_hsv_default, upper_hsv_default)
            IN  IF mask # None
                THEN /\ current_image_hsv_mask' = mask
                     /\ current_image_morphed_mask' = None
                     /\ current_step' = 3
                     /\ buttons' = set_button_states(3, mask, None, detection_model)
                     /\ current_image_detection' = None
                     /\ report' = Report("hsv", "done")
                ELSE /\ report' = Report("hsv", "failed")
                     /\ UNCHANGED <<current_step, current_image_hsv_mask,
                                    current_image_morphed_mask, current_image_detection,
                                    buttons>>
    /\ UNCHANGED <<current_image_path, current_image_original, current_image_processed,
                   detection_model, fusevars, purevars>>

\* Mutant: the operation is applied to the last morphed mask when there is one.
apply_and_display_morphology_Chained(op) ==
    /\ IF current_image_hsv_mask = None
       THEN /\ report' = Report(op, "no_mask")
            /\ UNCHANGED <<current_image_morphed_mask, current_image_detection, buttons>>
       ELSE IF CountNonZero(current_image_hsv_mask) = 0
       THEN /\ report' = Report(op, "empty_mask")
            /\ UNCHANGED <<current_image_morphed_mask, current_image_detection, buttons>>
       ELSE LET morphed_mask ==
                    morph_func(op, IF current_image_morphed_mask # None
                                   THEN current_image_morphed_mask
                                   ELSE current_image_hsv_mask)
            IN  /\ current_image_morphed_mask' = morphed_mask
                /\ buttons' = set_button_states(current_step, current_image_hsv_mask,
                                                morphed_mask, detection_model)
                /\ current_image_detection' = None
                /\ report' = Report(op, "done")
    /\ UNCHANGED <<current_step, current_image_path, current_image_original,
                   current_image_processed, current_image_hsv_mask, detection_model,
                   fusevars, purevars>>

\* Mutant: the empty-mask check is missing.
apply_and_display_morphology_NoEmptyCheck(op) ==
    /\ IF current_image_hsv_mask = None
       THEN /\ report' = Report(op, "no_mask")
            /\ UNCHANGED <<current_image_morphed_mask, current_image_detection, buttons>>
       ELSE LET morphed_mask == morph_func(op, current_image_hsv_mask)
            IN  /\ current_image_morphed_mask' = morphed_mask
                /\ buttons' = set_button_states(current_step, current_image_hsv_mask,
                                                morphed_mask, detection_model)
                /\ current_image_detection' = None
                /\ report' = Report(op, "done")
    /\ UNCHANGED <<current_step, current_image_path, current_image_original,
                   current_image_processed, current_image_hsv_mask, detection_model,
                   fusevars, purevars>>

\* _apply_and_display_morphology(morph_func, op_name); op names the menu entry.
apply_and_display_morphology(op) ==
    /\ IF current_image_hsv_mask = None
       THEN /\ report' = Report(op, "no_mask")
            /\ UNCHANGED <<current_image_morphed_mask, current_image_detection, buttons>>
       ELSE IF CountNonZero(current_image_hsv_mask) = 0
       THEN /\ report' = Report(op, "empty_mask")
            /\ UNCHANGED <<current_image_morphed_mask, current_image_detection, buttons>>
       ELSE LET morphed_mask == morph_func(op, current_image_hsv_mask)
            IN  IF morphed_mask # None
                THEN /\ current_image_morphed_mask' = morphed_mask
                     /\ buttons' = set_button_states(current_step, current_image_hsv_mask,
                                                     morphed_mask, detection_model)
                     /\ current_image_detection' = None
                     /\ report' = Report(op, "done")
                ELSE /\ report' = Report(op, "failed")
                     /\ UNCHANGED <<current_image_morphed_mask, current_image_detection,
                                    buttons>>
    /\ UNCHANGED <<current_step, current_image_path, current_image_original,
                   current_image_processed, current_image_hsv_mask, detection_model,
                   fusevars, purevars>>

action_morphology_erode == apply_and_display_morphology("erode")

action_morphology_dilate == apply_and_display_morphology("dilate")

action_morphology_opening == apply_and_display_morphology("open")

action_morphology_closing == apply_and_display_morphology("close")

\* Mutant: the step is advanced before the detector is called.
action_step5_StepBeforeDetector(detector_outcome) ==
    LET img_to_process_for_yolo ==
            IF current_image_processed # None THEN current_image_processed
            ELSE IF current_image_original # None THEN current_image_original
            ELSE None
    IN
    /\ IF img_to_process_for_yolo = None
       THEN /\ report' = Report("classify", "no_image")
            /\ UNCHANGED <<current_step, current_image_detection, buttons>>
       ELSE IF detection_model = None
       THEN /\ report' = Report("classify", "no_model")
            /\ UNCHANGED <<current_step, current_image_detection, buttons>>
       ELSE IF detector_outcome.raises
       THEN /\ report' = Report("classify", "detector_error")
            /\ current_step' = 5
            /\ UNCHANGED <<current_image_detection, buttons>>
       ELSE LET res == draw_detections_and_classify(img_to_process_for_yolo,
                                                    detector_outcome.results,
                                                    CONFIDENCE_THRESHOLD)
            IN  /\ current_image_detection' = res.img_display
                /\ report' = Report("classify", res.kualitas)
                /\ current_step' = 5
                /\ buttons' = set_button_states(5, current_image_hsv_mask,
                                                current_image_morphed_mask, detection_model)
    /\ UNCHANGED <<current_image_path, current_image_original, current_image_processed,
                   current_image_hsv_mask, current_image_morphed_mask, detection_model,
                   fusevars, purevars>>

\* Mutant: the boxes are drawn on top of the stored detection image.
action_step5_DrawsOnPrevious(detector_outcome) ==
    LET img_to_process_for_yolo ==
            IF current_image_processed # None THEN current_image_processed
            ELSE IF current_image_original # None THEN current_image_original
            ELSE None
    IN
    /\ IF img_to_process_for_yolo = None
       THEN /\ report' = Report("classify", "no_image")
            /\ UNCHANGED <<current_step, current_image_detection, buttons>>
       ELSE IF detection_model = None
       THEN /\ report' = Report("classify", "no_model")
            /\ UNCHANGED <<current_step, current_image_detection, buttons>>
       ELSE IF detector_outcome.raises
       THEN /\ report' = Report("classify", "detector_error")
            /\ UNCHANGED <<current_step, current_image_detection, buttons>>
       ELSE LET res == draw_detections_and_classify(img_to_process_for_yolo,
                                                    detector_outcome.results,
                                                    CONFIDENCE_THRESHOLD)
                previous == IF current_image_detection = None THEN <<>>
                            ELSE current_image_detection.drawn
            IN  /\ current_image_detection' =
                       [base |-> res.img_display.base,
                        drawn |-> previous \o res.img_display.drawn]
                /\ report' = Report("classify", res.kualitas)
                /\ current_step' = 5
                /\ buttons' = set_button_states(5, current_image_hsv_mask,
                                                current_image_morphed_mask, detection_model)
    /\ UNCHANGED <<current_image_path, current_image_original, current_image_processed,
                   current_image_hsv_mask, current_image_morphed_mask, detection_model,
                   fusevars, purevars>>

\* detector_outcome: what the call self.detection_model(img) does this time.
action_step5_deteksi_dan_klasifikasi(detector_outcome) ==
    LET img_to_process_for_yolo ==
            IF current_image_processed # None THEN current_image_processed
            ELSE IF current_image_original # None THEN current_image_original
            ELSE None
    IN
    /\ IF img_to_process_for_yolo = None
       THEN /\ report' = Report("classify", "no_image")
            /\ UNCHANGED <<current_step, current_image_detection, buttons>>
       ELSE IF detection_model = None
       THEN /\ report' = Report("classify", "no_model")
            /\ UNCHANGED <<current_step, current_image_detection, buttons>>
       ELSE IF detector_outcome.raises
       THEN /\ report' = Report("classify", "detector_error")
            /\ UNCHANGED <<current_step, current_image_detection, buttons>>
       ELSE LET res == draw_detections_and_classify(img_to_process_for_yolo,
                                                    detector_outcome.results,
                                                    CONFIDENCE_THRESHOLD)
            IN  /\ current_image_detection' = res.img_display
                /\ report' = Report("classify", res.kualitas)
                /\ current_step' = 5
                /\ buttons' = set_button_states(5, current_image_hsv_mask,
                                                current_image_morphed_mask, detection_model)
    /\ UNCHANGED <<current_image_path, current_image_original, current_image_processed,
                   current_image_hsv_mask, current_image_morphed_mask, detection_model,
                   fusevars, purevars>>

\* Mutant: the buttons are refreshed before the fields are cleared.
action_step6_ButtonsFirst ==
    /\ current_image_original' = None
    /\ current_image_processed' = None
    /\ current_image_hsv_mask' = None
    /\ current_image_morphed_mask' = None
    /\ current_image_detection' = None
    /\ current_image_path' = NoPath
    /\ report' = Report("reset", "done")
    /\ current_step' = 0
    /\ buttons' = set_button_states(0, current_image_hsv_mask,
                                    current_image_morphed_mask, detection_model)
    /\ UNCHANGED <<detection_model, fusevars, purevars>>

action_step6_reset_aplikasi ==
    /\ current_image_original' = None
    /\ current_image_processed' = None
    /\ current_image_hsv_mask' = None
    /\ current_image_morphed_mask' = None
    /\ current_image_detection' = None
    /\ current_image_path' = NoPath
    /\ report' = Report("reset", "done")
    /\ current_step' = 0
    /\ buttons' = set_button_states(0, None, None, detection_model)
    /\ UNCHANGED <<detection_model, fusevars, purevars>>

Next ==
    \/ \E file_name \in DialogResults : action_step1_pilih_gambar(file_name)
    \/ action_step2_perbaiki_kualitas
    \/ action_step3_hsv_threshold
    \/ action_morphology_erode
    \/ action_morphology_dilate
    \/ action_morphology_opening
    \/ action_morphology_closing
    \/ \E detector_outcome \in DetectorOutcomes :
           action_step5_deteksi_dan_klasifikasi(detector_outcome)
    \/ action_step6_reset_aplikasi

Spec == Init /\ [][Next]_vars

(***************************************************************************)
(* The window as the operator drives it: a handler runs only when the      *)
(* button (or the menu of the morphology button) it is connected to is     *)
(* enabled.                                                                *)
(***************************************************************************)
btn_pilih_gambar_clicked(file_name) ==
    buttons.pilih_gambar /\ action_step1_pilih_gambar(file_name)

btn_proses_contrast_clicked ==
    buttons.proses_contrast /\ action_step2_perbaiki_kualitas

btn_proses_hsv_clicked ==
    buttons.proses_hsv /\ action_step3_hsv_threshold

action_erode_triggered ==
    buttons.proses_morphology /\ action_morphology_erode

action_dilate_triggered ==
    buttons.proses_morphology /\ action_morphology_dilate

action_open_triggered ==
    buttons.proses_morphology /\ action_morphology_opening

action_close_triggered ==
    buttons.proses_morphology /\ action_morphology_closing

btn_deteksi_jamur_clicked(detector_outcome) ==
    buttons.deteksi_jamur /\ action_step5_deteksi_dan_klasifikasi(detector_outcome)

btn_reset_aplikasi_clicked ==
    buttons.reset_aplikasi /\ action_step6_reset_aplikasi

NextUI ==
    \/ \E file_name \in DialogResults : btn_pilih_gambar_clicked(file_name)
    \/ btn_proses_contrast_clicked
    \/ btn_proses_hsv_clicked
    \/ action_erode_triggered
    \/ action_dilate_triggered
    \/ action_open_triggered
    \/ action_close_triggered
    \/ \E detector_outcome \in DetectorOutcomes :
           btn_deteksi_jamur_clicked(detector_outcome)
    \/ btn_reset_aplikasi_clicked

SpecUI == Init /\ [][NextUI]_vars

(***************************************************************************)
(* draw_detections_and_classify on its own: the inputs are drawn from      *)
(* bounded sets and the function is applied once.                          *)
(***************************************************************************)
FuseNames == {NameMold, NameJamur, NameBreadMold, NameCrust}

FuseScores == {30, 50, 90}

FuseThresholds == {50, 90}

\* Boxes for a w x h image: larger than the image on every side; inside the
\* image; entirely to the lower right of it; touching the last column only.
FuseBoxes(w, h) ==
    { <<-10, -10, w + 10, h + 10>>,
      <<0, 0, 1, 1>>,
      <<w + 5, h + 5, w + 9, h + 9>>,
      <<w - 1, 0, w + 3, 1>> }

FuseDetections(w, h) ==
    {Det(n, b, sc) : n \in FuseNames, b \in FuseBoxes(w, h), sc \in FuseScores}

SeqsUpTo(S, n) == UNION {[1..k -> S] : k \in 0..n}

InitFuse ==
    /\ MainApp_init(None)
    /\ \E w \in 1..MaxW, h \in 1..MaxH :
          /\ f_img = BlankImage(w, h)
          /\ f_dets \in SeqsUpTo(FuseDetections(w, h), MaxDets)
    /\ f_thr \in FuseThresholds
    /\ f_out = None
    /\ p_in = None
    /\ p_out = None

FuseAndClassify ==
    /\ f_out = None
    /\ f_out' = draw_detections_and_classify(f_img, f_dets, f_thr)
    /\ UNCHANGED <<appvars, f_img, f_dets, f_thr, purevars>>

NextFuse == FuseAndClassify

SpecFuse == InitFuse /\ [][NextFuse]_vars

(***************************************************************************)
(* Properties of the MainApp handlers (checked under Spec).                *)
(***************************************************************************)
OnlyLoadEnabled ==
    /\ buttons.pilih_gambar
    /\ ~buttons.proses_contrast
    /\ ~buttons.proses_hsv
    /\ ~buttons.proses_morphology
    /\ ~buttons.deteksi_jamur
    /\ ~buttons.reset_aplikasi

MorphDone == report.op \in MorphOps /\ report.outcome = "done"

\* C1: every successful stage leaves all of its downstream outputs absent:
\* load clears enhanced image, HSV mask, morphed mask and detection result;
\* enhance clears HSV mask, morphed mask and detection result; HSV threshold
\* clears morphed mask and detection result; morphology clears the
\* detection result.
C1_DownstreamCleared ==
    /\ report = Report("load", "loaded") =>
          /\ current_image_processed = None
          /\ current_image_hsv_mask = None
          /\ current_image_morphed_mask = None
          /\ current_image_detection = None
    /\ report = Report("enhance", "done") =>
          /\ current_image_hsv_mask = None
          /\ current_image_morphed_mask = None
          /\ current_image_detection = None
    /\ report = Report("hsv", "done") =>
          /\ current_image_morphed_mask = None
          /\ current_image_detection = None
    /\ MorphDone => current_image_detection = None

\* An HSV threshold has just succeeded.
C1_Witness ==
    /\ report = Report("hsv", "done")
    /\ current_image_hsv_mask # None
    /\ current_image_processed # None
    /\ detection_model # None

MorphReady ==
    /\ current_step = 3
    /\ current_image_hsv_mask # None
    /\ current_image_morphed_mask # None

\* C2: a successful enhance from MorphReady with a loaded detector leaves
\* the HSV control enabled and the morphology and detection controls
\* disabled.
C2_EnhanceFromMorphReady ==
    [][ ( /\ MorphReady
          /\ detection_model # None
          /\ report' = Report("enhance", "done") )
        => ( /\ buttons'.proses_hsv
             /\ ~buttons'.proses_morphology
             /\ ~buttons'.deteksi_jamur ) ]_vars

\* C3: a morphology operation on an all-zero HSV mask reports the empty mask
\* and changes neither the pipeline state nor the buttons.
C3_EmptyMaskNoOp ==
    [][ ( /\ report'.op \in MorphOps
          /\ current_image_hsv_mask # None
          /\ CountNonZero(current_image_hsv_mask) = 0 )
        => ( /\ report'.outcome = "empty_mask"
             /\ UNCHANGED <<pipeline, buttons>> ) ]_vars

C3_Witness ==
    /\ report.op \in MorphOps
    /\ report.outcome = "empty_mask"
    /\ current_image_hsv_mask # None
    /\ CountNonZero(current_image_hsv_mask) = 0
    /\ current_step = 3

\* C8: reset, from any state, yields step 0 with every buffer and the path
\* absent and only the load button enabled, and keeps the detection model.
C8_Reset ==
    [][ report'.op = "reset"
        => ( /\ current_step' = 0
             /\ current_image_original' = None
             /\ current_image_processed' = None
             /\ current_image_hsv_mask' = None
             /\ current_image_morphed_mask' = None
             /\ current_image_detection' = None
             /\ current_image_path' = NoPath
             /\ OnlyLoadEnabled'
             /\ detection_model' = detection_model ) ]_vars

C8_Witness ==
    /\ report = Report("reset", "done")
    /\ detection_model = YOLO
    /\ current_step = 0
    /\ current_image_morphed_mask = None

\* C9: when the detector raises, the step counter, the five buffers
\* (including an earlier detection result) and the buttons are unchanged.
C9_DetectorFailureKeepsState ==
    [][ report' = Report("classify", "detector_error")
        => UNCHANGED <<pipeline, buttons>> ]_vars

C9_Witness ==
    /\ report = Report("classify", "detector_error")
    /\ current_image_detection # None
    /\ current_image_morphed_mask # None
    /\ current_step = 5

\* C10: without a detection model the step counter is never 5, no detection
\* result is stored and the detection button is never enabled.
C10_NoModelNeverClassified ==
    detection_model = None =>
        /\ current_step # 5
        /\ current_image_detection = None
        /\ ~buttons.deteksi_jamur

C10_Witness ==
    /\ detection_model = None
    /\ report = Report("classify", "no_model")
    /\ current_image_morphed_mask # None
    /\ current_step = 3

(***************************************************************************)
(* Properties of draw_detections_and_classify (checked under SpecFuse).    *)
(***************************************************************************)
FuseDone == f_out # None

\* The labels of FuseNames that name mold, whatever their case.
MoldLabels == {NameMold, NameJamur, NameBreadMold}

Accepted(d) == d.score >= f_thr

MatchingDetections ==
    {i \in 1..Len(f_dets) : Accepted(f_dets[i]) /\ f_dets[i].name \in MoldLabels}

\* C4: the verdict is BERJAMUR exactly when some detection has a score of at
\* least the threshold and a mold label (in any case); otherwise SEGAR.
C4_VerdictPolicy ==
    FuseDone =>
        /\ f_out.kualitas \in {"SEGAR", "BERJAMUR"}
        /\ f_out.kualitas = "BERJAMUR" <=> MatchingDetections # {}

\* Two matching detections, far above and exactly at the threshold.
C4_Witness ==
    /\ FuseDone
    /\ Cardinality(MatchingDetections) = 2
    /\ \E i \in MatchingDetections : f_dets[i].name = NameJamur
    /\ f_out.kualitas = "BERJAMUR"

\* The clipped box as the code computes it, restated for the properties.
ClippedDegenerate(d) ==
    \/ Max(0, d.bbox[1]) >= Min(f_img.w - 1, d.bbox[3])
    \/ Max(0, d.bbox[2]) >= Min(f_img.h - 1, d.bbox[4])

RECURSIVE WithoutDegenerate(_)
WithoutDegenerate(dets) ==
    IF dets = <<>> THEN <<>>
    ELSE IF ClippedDegenerate(Head(dets)) THEN WithoutDegenerate(Tail(dets))
    ELSE <<Head(dets)>> \o WithoutDegenerate(Tail(dets))

\* C5: a detection whose clipped box is degenerate is not drawn and does not
\* affect the verdict: the verdict is the one obtained with every such
\* detection removed from the list.
C5_DegenerateIgnored ==
    FuseDone =>
        /\ \A k \in 1..Len(f_out.img_display.drawn) :
              f_out.img_display.drawn[k].box[1] < f_out.img_display.drawn[k].box[3]
        /\ f_out.kualitas =
              draw_detections_and_classify(f_img, WithoutDegenerate(f_dets), f_thr).kualitas

OversizeBox == <<-10, -10, f_img.w + 10, f_img.h + 10>>

FullImageBox == <<0, 0, f_img.w - 1, f_img.h - 1>>

DrawnFor(d, box) ==
    \E k \in 1..Len(f_out.img_display.drawn) :
        /\ f_out.img_display.drawn[k].box = box
        /\ f_out.img_display.drawn[k].text = <<d.name, d.score>>

OversizeDrawn ==
    \A i \in 1..Len(f_dets) :
        (Accepted(f_dets[i]) /\ f_dets[i].bbox = OversizeBox)
            => DrawnFor(f_dets[i], FullImageBox)

\* C6 as stated: on every W x H image an accepted detection with box
\* (-10, -10, W+10, H+10) is drawn with box (0, 0, W-1, H-1).
C6_OversizeDrawnAnySize == FuseDone => OversizeDrawn

\* C6 amended: the same, for images at least 2 pixels wide and 2 pixels high.
C6_OversizeDrawn ==
    (FuseDone /\ f_img.w >= 2 /\ f_img.h >= 2) => OversizeDrawn

C6_Witness ==
    /\ FuseDone
    /\ f_img.w >= 2
    /\ f_img.h >= 2
    /\ \E i \in 1..Len(f_dets) : Accepted(f_dets[i]) /\ f_dets[i].bbox = OversizeBox
    /\ \E k \in 1..Len(f_out.img_display.drawn) :
          f_out.img_display.drawn[k].box = FullImageBox

\* C7: with an empty list, or with every score below the threshold, nothing
\* is drawn, the image is the input image and the verdict is SEGAR; a score
\* equal to the threshold is accepted (it counts for the verdict, and its
\* box is drawn when not degenerate).
C7_ThresholdCut ==
    FuseDone =>
        /\ (\A i \in 1..Len(f_dets) : f_dets[i].score < f_thr) =>
              /\ f_out.img_display.drawn = <<>>
              /\ f_out.img_display.base = f_img
              /\ f_out.kualitas = "SEGAR"
        /\ \A i \in 1..Len(f_dets) : f_dets[i].score = f_thr =>
              /\ f_dets[i].name \in MoldLabels => f_out.kualitas = "BERJAMUR"
              /\ ~ClippedDegenerate(f_dets[i]) =>
                    \E k \in 1..Len(f_out.img_display.drawn) :
                        f_out.img_display.drawn[k].text = <<f_dets[i].name, f_dets[i].score>>

\* A list whose only accepted detection sits exactly on the threshold.
C7_Witness ==
    /\ FuseDone
    /\ Len(f_dets) = 2
    /\ f_dets[1].score < f_thr
    /\ f_dets[2].score = f_thr
    /\ f_dets[2].name \in MoldLabels
    /\ Len(f_out.img_display.drawn) = 1
    /\ f_out.kualitas = "BERJAMUR"

(***************************************************************************)
(* Further properties of the MainApp handlers (checked under Spec).        *)
(***************************************************************************)
\* C11: a stage whose precondition is not met reports it and leaves the step
\* counter and the five buffers unchanged: enhance without an original
\* image, HSV threshold without an enhanced image, morphology without an
\* HSV mask, classify without any image or without a detection model.
C11_PreconditionFailureKeepsState ==
    [][ /\ (report'.op = "enhance" /\ current_image_original = None)
              => (report'.outcome = "no_image" /\ UNCHANGED pipeline)
        /\ (report'.op = "hsv" /\ current_image_processed = None)
              => (report'.outcome = "no_enhanced" /\ UNCHANGED pipeline)
        /\ (report'.op \in MorphOps /\ current_image_hsv_mask = None)
              => (report'.outcome = "no_mask" /\ UNCHANGED pipeline)
        /\ ( /\ report'.op = "classify"
             /\ current_image_processed = None
             /\ current_image_original = None )
              => (report'.outcome = "no_image" /\ UNCHANGED pipeline)
        /\ (report'.op = "classify" /\ detection_model = None)
              => (report'.outcome \in {"no_image", "no_model"} /\ UNCHANGED pipeline)
      ]_vars

\* The HSV threshold was refused on a loaded but not yet enhanced image.
C11_Witness ==
    /\ report = Report("hsv", "no_enhanced")
    /\ current_image_original # None
    /\ current_image_processed = None
    /\ current_step = 1

\* The four operations by name, for the properties.
MorphOf(op, mask) ==
    CASE op = "erode"  -> cv2_erode(mask)
      [] op = "dilate" -> cv2_dilate(mask)
      [] op = "open"   -> cv2_dilate(cv2_erode(mask))
      [] op = "close"  -> cv2_erode(cv2_dilate(mask))

\* C15: a morphed mask, when present, is the most recently invoked
\* operation applied to the current HSV mask (never to an earlier morphed
\* mask), and no morphology operation changes the HSV mask.
C15_MorphFromHsvMask ==
    [][ /\ (report'.op \in MorphOps /\ report'.outcome = "done") =>
              current_image_morphed_mask' = MorphOf(report'.op, current_image_hsv_mask)
        /\ report'.op \in MorphOps =>
              current_image_hsv_mask' = current_image_hsv_mask
        /\ current_image_morphed_mask' # None =>
              \/ (report'.op \in MorphOps /\ report'.outcome = "done")
              \/ /\ current_image_morphed_mask' = current_image_morphed_mask
                 /\ current_image_hsv_mask' = current_image_hsv_mask
      ]_vars

\* A dilation is stored that differs from what dilating any previously
\* available morphed mask of the same HSV mask would give.
C15_Witness ==
    /\ report = Report("dilate", "done")
    /\ current_image_morphed_mask = cv2_dilate(current_image_hsv_mask)
    /\ current_image_morphed_mask # cv2_dilate(cv2_erode(current_image_hsv_mask))
    /\ current_image_morphed_mask # current_image_hsv_mask

(***************************************************************************)
(* Repeating a stage.                                                      *)
(***************************************************************************)
Verdicts == {"SEGAR", "BERJAMUR"}

\* The state is the one a classification with this detector answer leaves.
ClassifiedWith(d) ==
    /\ ~d.raises
    /\ report.op = "classify"
    /\ report.outcome \in Verdicts
    /\ current_step = 5
    /\ current_image_detection =
           draw_detections_and_classify(
               IF current_image_processed # None THEN current_image_processed
               ELSE current_image_original,
               d.results, CONFIDENCE_THRESHOLD).img_display

\* C17: a second successful invocation of enhance, of the HSV threshold, of
\* one morphology operation, or of the classification with the same
\* detector answer, right after the first, is carried out again (it
\* reports completion) and leaves the step counter and the five stored
\* images as the first invocation left them.
C17_StageIdempotent ==
    [][ /\ (report = Report("enhance", "done") /\ action_step2_perbaiki_kualitas) =>
              (report' = report /\ pipeline' = pipeline)
        /\ (report = Report("hsv", "done") /\ action_step3_hsv_threshold) =>
              (report' = report /\ pipeline' = pipeline)
        /\ \A op \in MorphOps :
              (report = Report(op, "done") /\ apply_and_display_morphology(op)) =>
                  (report' = report /\ pipeline' = pipeline)
        /\ \A d \in DetectorOutcomes :
              (ClassifiedWith(d) /\ action_step5_deteksi_dan_klasifikasi(d)) =>
                  (report' = report /\ pipeline' = pipeline)
      ]_vars

\* A classification that drew a box has been done: repeating it with the
\* same detector answer has a box to draw again.
C17_Witness ==
    /\ \E d \in DetectorOutcomes : ClassifiedWith(d)
    /\ current_image_detection.drawn # <<>>
    /\ current_image_morphed_mask # None
    /\ report.outcome = "BERJAMUR"


(***************************************************************************)
(* The order of the steps when only enabled controls are used.             *)
(***************************************************************************)
StepOrder == {<<0, 1>>, <<1, 2>>, <<2, 3>>, <<3, 5>>}

\* C18: with handlers run only through enabled controls, the step counter
\* stays, moves along 0 -> 1 -> 2 -> 3 -> 5, or returns to 0 by a reset or a
\* load; and whenever the step is 5 the HSV mask of the current enhanced
\* image is stored (loading and resetting clear it).
C18_StepOrder ==
    [][ /\ current_step' # current_step =>
              \/ <<current_step, current_step'>> \in StepOrder
              \/ current_step' = 0 /\ report'.op \in {"reset", "load"}
        /\ current_step' = 5 =>
              /\ current_image_processed' # None
              /\ current_image_hsv_mask' # None
              /\ current_image_hsv_mask' =
                     apply_hsv_threshold(current_image_processed',
                                         lower_hsv_default, upper_hsv_default)
      ]_vars

\* A classification reached through the enabled controls, without any
\* morphology in between.
C18_Witness ==
    /\ current_step = 5
    /\ report.op = "classify"
    /\ report.outcome = "SEGAR"
    /\ current_image_hsv_mask # None
    /\ current_image_morphed_mask = None
    /\ ~buttons.proses_contrast

\* C19: a successful morphology operation leaves the step counter and the
\* HSV mask as they were, and afterwards the morphology button is enabled
\* exactly when the step is at least 3 (the HSV mask is non-empty, or the
\* operation would not have run), whatever the morphed result is.
C19_MorphKeepsStepAndButton ==
    [][ (report'.op \in MorphOps /\ report'.outcome = "done") =>
            /\ current_step' = current_step
            /\ current_image_hsv_mask' = current_image_hsv_mask
            /\ CountNonZero(current_image_hsv_mask') > 0
            /\ buttons'.proses_morphology <=> (current_step >= 3)
      ]_vars

\* An erosion at step 3 whose result has no set pixel; the button is enabled.
C19_Witness ==
    /\ report = Report("erode", "done")
    /\ current_step = 3
    /\ current_image_morphed_mask # None
    /\ CountNonZero(current_image_morphed_mask) = 0
    /\ buttons.proses_morphology

(***************************************************************************)
(* apply_hsv_threshold on its own: image (or None) and bounds drawn from   *)
(* small sets, the function applied once.                                  *)
(***************************************************************************)
Applied(r) == [done |-> TRUE, result |-> r]

ThreshPixels == {Pix(100, 60, 100), Pix(0, 0, 0), Pix(255, 100, 255)}

ThreshImages ==
    {None}
    \cup {Img(1, 1, <<a>>) : a \in ThreshPixels}
    \cup {Img(2, 1, <<a, b>>) : a \in ThreshPixels, b \in ThreshPixels}

ThreshLevels == {0, 100, 255}

ThreshBounds == {<<a, b, c>> : a \in ThreshLevels, b \in ThreshLevels, c \in ThreshLevels}

InitThreshold ==
    /\ MainApp_init(None)
    /\ f_img = None
    /\ f_dets = <<>>
    /\ f_thr = CONFIDENCE_THRESHOLD
    /\ f_out = None
    /\ p_in \in {[img |-> i, lower |-> lo, upper |-> up] :
                    i \in ThreshImages, lo \in ThreshBounds, up \in ThreshBounds}
    /\ p_out = None

ThresholdHSV ==
    /\ p_out = None
    /\ p_out' = Applied(apply_hsv_threshold(p_in.img, p_in.lower, p_in.upper))
    /\ UNCHANGED <<appvars, fusevars, p_in>>

NextThreshold == ThresholdHSV

SpecThreshold == InitThreshold /\ [][NextThreshold]_vars

ThresholdDone == p_out # None

RangeInverted == \E c \in 1..3 : p_in.lower[c] > p_in.upper[c]

EnhChroma == [h |-> 60, s |-> 100]

EnhPix(yy) == Pix(yy, EnhChroma.h, EnhChroma.s)

UniformSizes == {1, 2}

UniformImage(n, c) == Img(n, 1, [i \in 1..n |-> EnhPix(c)])

EnhMins == {0, 1, 100}

StretchImage(lo, v, hi) == Img(3, 1, <<EnhPix(lo), EnhPix(v), EnhPix(hi)>>)

InitEnhance ==
    /\ MainApp_init(None)
    /\ f_img = None
    /\ f_dets = <<>>
    /\ f_thr = CONFIDENCE_THRESHOLD
    /\ f_out = None
    /\ \/ \E n \in UniformSizes, c \in 0..255 : p_in = UniformImage(n, c)
       \/ \E lo \in EnhMins, hi \in 1..255 :
             /\ lo < hi
             /\ \E v \in lo..hi : p_in = StretchImage(lo, v, hi)
    /\ p_out = None

EnhanceLuminance ==
    /\ p_out = None
    /\ p_out' = Applied(enhance_contrast_stretching(p_in))
    /\ UNCHANGED <<appvars, fusevars, p_in>>

NextEnhance == EnhanceLuminance

SpecEnhance == InitEnhance /\ [][NextEnhance]_vars

EnhanceDone == p_out # None

InLum == {p_in.px[i].y : i \in 1..Len(p_in.px)}

InLumMin == CHOOSE m \in InLum : \A y \in InLum : m <= y

InLumMax == CHOOSE m \in InLum : \A y \in InLum : m >= y

NonUniform == InLumMin < InLumMax

Abs(x) == IF x < 0 THEN 0 - x ELSE x

\* C13 as stated: on a non-uniform image every sample v becomes the integer
\* nearest to (v - min) * 255 / (max - min), within 0..255.
C13_StretchRounds ==
    (EnhanceDone /\ NonUniform) =>
        \A i \in 1..Len(p_in.px) :
            /\ p_out.result.px[i].y \in 0..255
            /\ 2 * Abs(p_out.result.px[i].y * (InLumMax - InLumMin)
                       - (p_in.px[i].y - InLumMin) * 255)
                  <= InLumMax - InLumMin

\* C13 amended: every sample v becomes (v - min) * 255 / (max - min)
\* truncated to an integer (the largest integer not above it), within 0..255.
C13_StretchTruncates ==
    (EnhanceDone /\ NonUniform) =>
        \A i \in 1..Len(p_in.px) :
            /\ p_out.result.px[i].y \in 0..255
            /\ p_out.result.px[i].y * (InLumMax - InLumMin)
                  <= (p_in.px[i].y - InLumMin) * 255
            /\ (p_in.px[i].y - InLumMin) * 255
                  < (p_out.result.px[i].y + 1) * (InLumMax - InLumMin)

\* 1 * 255 / 4 = 63.75 is stored as 63.
C13_Witness ==
    /\ EnhanceDone
    /\ YChannel(p_in) = <<100, 101, 104>>
    /\ YChannel(p_out.result) = <<0, 63, 255>>

\* C14: on a uniform image (max = min) every luminance sample is returned
\* unchanged, for every value 0..255.
C14_UniformUnchanged ==
    (EnhanceDone /\ ~NonUniform) =>
        /\ p_out.result # None
        /\ Len(p_out.result.px) = Len(p_in.px)
        /\ \A i \in 1..Len(p_in.px) : p_out.result.px[i].y = p_in.px[i].y

C14_Witness ==
    /\ EnhanceDone
    /\ YChannel(p_in) = <<255, 255>>
    /\ YChannel(p_out.result) = <<255, 255>>

(***************************************************************************)
(* The four morphology functions on their own: every binary mask up to     *)
(* MorphMaxW x MorphMaxH, one operation applied.                           *)
(***************************************************************************)
BinaryMasks(w, h) == {Img(w, h, p) : p \in [1..(w * h) -> {0, 255}]}

InitMorph ==
    /\ MainApp_init(None)
    /\ f_img = None
    /\ f_dets = <<>>
    /\ f_thr = CONFIDENCE_THRESHOLD
    /\ f_out = None
    /\ \E w \in 1..MorphMaxW, h \in 1..MorphMaxH : p_in \in BinaryMasks(w, h)
    /\ p_out = None

MorphApplied(op, r) == [done |-> TRUE, op |-> op, result |-> r]

Erode ==
    /\ p_out = None
    /\ p_out' = MorphApplied("erode", apply_morphology_erode(p_in))
    /\ UNCHANGED <<appvars, fusevars, p_in>>

Dilate ==
    /\ p_out = None
    /\ p_out' = MorphApplied("dilate", apply_morphology_dilate(p_in))
    /\ UNCHANGED <<appvars, fusevars, p_in>>

Open ==
    /\ p_out = None
    /\ p_out' = MorphApplied("open", apply_morphology_open(p_in))
    /\ UNCHANGED <<appvars, fusevars, p_in>>

Close ==
    /\ p_out = None
    /\ p_out' = MorphApplied("close", apply_morphology_close(p_in))
    /\ UNCHANGED <<appvars, fusevars, p_in>>

NextMorph == Erode \/ Dilate \/ Open \/ Close

SpecMorph == InitMorph /\ [][NextMorph]_vars

MorphResult(op) == p_out # None /\ p_out.op = op

SetPixels(mask) == {i \in 1..Len(mask.px) : mask.px[i] # 0}

SameShapeBinary(mask) ==
    /\ mask.w = p_in.w
    /\ mask.h = p_in.h
    /\ Len(mask.px) = Len(p_in.px)
    /\ \A i \in 1..Len(mask.px) : mask.px[i] \in {0, 255}

\* C16: for every binary mask, the set pixels of the erosion are among
\* those of the mask, which are among those of the dilation; both results
\* have the mask's dimensions and only the values 0 and 255.
C16_ErodeMaskDilate ==
    /\ MorphResult("erode") =>
          /\ SameShapeBinary(p_out.result)
          /\ SetPixels(p_out.result) \subseteq SetPixels(p_in)
    /\ MorphResult("dilate") =>
          /\ SameShapeBinary(p_out.result)
          /\ SetPixels(p_in) \subseteq SetPixels(p_out.result)

\* An erosion that removes some but not all set pixels of a 4 x 2 mask.
C16_Witness ==
    /\ MorphResult("erode")
    /\ p_in.w = 4
    /\ p_in.h = 2
    /\ SetPixels(p_out.result) # {}
    /\ SetPixels(p_out.result) # SetPixels(p_in)

(***************************************************************************)
(* draw_detections_and_classify on images tall enough for both label       *)
(* positions: boxes with their top edge around the limit ymin - 5 > 10     *)
(* and heights around 15.                                                  *)
(***************************************************************************)
LabelWidth == 4

LabelHeights == {LabelMaxH \div 2, LabelMaxH}

LabelTops == {-3, 0, 5, 14, 15, 16, 17, 30}

LabelBoxHeights == {1, 14, 15, 16}

LabelDetections ==
    {Det(NameMold, <<0, t, LabelWidth - 1, t + bh>>, 90) :
        t \in LabelTops, bh \in LabelBoxHeights}

InitLabel ==
    /\ MainApp_init(None)
    /\ \E h \in LabelHeights : f_img = BlankImage(LabelWidth, h)
    /\ \E k \in 0..MaxDets : f_dets \in [1..k -> LabelDetections]
    /\ f_thr = CONFIDENCE_THRESHOLD
    /\ f_out = None
    /\ p_in = None
    /\ p_out = None

DrawLabels ==
    /\ f_out = None
    /\ f_out' = draw_detections_and_classify(f_img, f_dets, f_thr)
    /\ UNCHANGED <<appvars, f_img, f_dets, f_thr, purevars>>

NextLabel == DrawLabels

SpecLabel == InitLabel /\ [][NextLabel]_vars

Labelled == f_out # None

Drawn == f_out.img_display.drawn

\* The drawn boxes are the clipped, valid boxes of the detections.
DrawnIsClipped(c) ==
    \E i \in 1..Len(f_dets) :
        /\ c.box = ClipBox(f_img, f_dets[i].bbox)
        /\ BoxValid(c.box)

\* C20 as stated: the label of a drawn box is at ymin - 5 when ymin - 5 > 10,
\* and otherwise at ymin + 15, which is inside the box (ymin < y <= ymax).
C20_LabelInsideBox ==
    Labelled =>
        \A j \in 1..Len(Drawn) :
            LET c == Drawn[j]
                ymin == c.box[2]
                ymax == c.box[4]
            IN  /\ DrawnIsClipped(c)
                /\ IF ymin - 5 > 10
                   THEN c.text_y = ymin - 5
                   ELSE /\ c.text_y = ymin + 15
                        /\ ymin < c.text_y
                        /\ c.text_y <= ymax

\* C20, amended: the label of a drawn box is at ymin - 5 when ymin - 5 > 10,
\* and otherwise at ymin + 15, below the top edge; that is inside the box
\* exactly when the clipped box is at least 15 high, and below its bottom
\* edge otherwise.
C20_LabelPosition ==
    Labelled =>
        \A j \in 1..Len(Drawn) :
            LET c == Drawn[j]
                ymin == c.box[2]
                ymax == c.box[4]
            IN  /\ DrawnIsClipped(c)
                /\ IF ymin - 5 > 10
                   THEN c.text_y = ymin - 5
                   ELSE /\ c.text_y = ymin + 15
                        /\ ymin < c.text_y
                        /\ (c.text_y <= ymax) <=> (ymax - ymin >= 15)
                        /\ (c.text_y > ymax) <=> (ymax - ymin < 15)

\* Two boxes drawn: one labelled above its top edge, one labelled below its
\* own bottom edge.
C20_Witness ==
    /\ Labelled
    /\ \E j \in 1..Len(Drawn) :
          /\ Drawn[j].box[2] = 16
          /\ Drawn[j].text_y = 11
    /\ \E j \in 1..Len(Drawn) :
          /\ Drawn[j].box[2] = 15
          /\ Drawn[j].text_y = 30
          /\ Drawn[j].box[4] < 30

(***************************************************************************)
(* draw_detections_and_classify on a detection list and on a reordering    *)
(* of the same list.                                                       *)
(***************************************************************************)
OrderNames == {NameMold, NameCrust}

OrderScores == {30, 90}

\* Larger than the image on every side; entirely to the lower right of it.
OrderBoxes(w, h) ==
    { <<-10, -10, w + 10, h + 10>>,
      <<w + 5, h + 5, w + 9, h + 9>> }

OrderDetections(w, h) ==
    {Det(n, b, sc) : n \in OrderNames, b \in OrderBoxes(w, h), sc \in OrderScores}

Reordered(dets, perm) == [i \in 1..Len(dets) |-> dets[perm[i]]]

InitOrder ==
    /\ MainApp_init(None)
    /\ \E w \in 1..MaxW, h \in 1..MaxH :
          /\ f_img = BlankImage(w, h)
          /\ \E k \in 0..MaxDets : f_dets \in [1..k -> OrderDetections(w, h)]
    /\ \E perm \in Permutations(1..Len(f_dets)) :
          p_in = [dets |-> Reordered(f_dets, perm)]
    /\ f_thr = CONFIDENCE_THRESHOLD
    /\ f_out = None
    /\ p_out = None

FuseBothOrders ==
    /\ f_out = None
    /\ f_out' = draw_detections_and_classify(f_img, f_dets, f_thr)
    /\ p_out' = Applied(draw_detections_and_classify(f_img, p_in.dets, f_thr))
    /\ UNCHANGED <<appvars, f_img, f_dets, f_thr, p_in>>

NextOrder == FuseBothOrders

SpecOrder == InitOrder /\ [][NextOrder]_vars

BothFused == f_out # None /\ p_out # None

Annotations(res) ==
    {[box |-> res.img_display.drawn[j].box,
      color |-> res.img_display.drawn[j].color,
      text |-> res.img_display.drawn[j].text] : j \in 1..Len(res.img_display.drawn)}

\* C21: for a detection list and any reordering of it, the verdict is the
\* same and the set of drawn (clipped box, colour, label) annotations is
\* the same.
C21_OrderIndependent ==
    BothFused =>
        /\ p_out.result.kualitas = f_out.kualitas
        /\ Annotations(p_out.result) = Annotations(f_out)

\* A reordering that moves a mold behind another drawn detection, so the
\* rectangles are drawn in a different sequence.
C21_Witness ==
    /\ BothFused
    /\ p_in.dets # f_dets
    /\ f_out.kualitas = "BERJAMUR"
    /\ Cardinality(Annotations(f_out)) = 2
    /\ p_out.result.img_display.drawn # f_out.img_display.drawn

(***************************************************************************)
(* The stored images when only enabled controls are used.                  *)
(***************************************************************************)
\* C22: with handlers run only through enabled controls, step 0 means that
\* none of the five images is stored; an HSV mask is stored only with an
\* enhanced image, an enhanced image only with an original, a morphed mask
\* only with an HSV mask that has a set pixel; and the original is absent
\* exactly at step 0.
C22_ForwardDataFlow ==
    /\ current_step = 0 =>
          /\ current_image_original = None
          /\ current_image_processed = None
          /\ current_image_hsv_mask = None
          /\ current_image_morphed_mask = None
          /\ current_image_detection = None
    /\ current_image_hsv_mask # None => current_image_processed # None
    /\ current_image_processed # None => current_image_original # None
    /\ current_image_morphed_mask # None =>
          /\ current_image_hsv_mask # None
          /\ CountNonZero(current_image_hsv_mask) > 0
    /\ current_image_original = None <=> current_step = 0

\* All five images stored at once, reached through the enabled controls.
C22_Witness ==
    /\ current_step = 5
    /\ current_image_original # None
    /\ current_image_hsv_mask # None
    /\ current_image_morphed_mask # None
    /\ current_image_detection # None

(***************************************************************************)
(* The step counter and the stored classification result.                  *)
(***************************************************************************)
\* C23: the step counter is 5 exactly when a classification result is
\* stored, in every reachable state, also after a morphology operation
\* invoked at step 5.
C23_ClassifiedIffResult ==
    (current_step = 5) <=> (current_image_detection # None)

\* The half of C23 that the enabled controls do maintain: a stored
\* classification result implies step 5.
ResultOnlyAtStep5 ==
    current_image_detection # None => current_step = 5

\* The state that refutes the other half: a morphology operation carried
\* out at step 5 has discarded the result and left the step at 5.
MorphAfterClassified ==
    /\ report.op \in MorphOps
    /\ report.outcome = "done"
    /\ current_step = 5
    /\ current_image_detection = None

(***************************************************************************)
(* draw_detections_and_classify on one detection whose box has arbitrary   *)
(* coordinates around the image: negative, inside, beyond the far edges,   *)
(* and with the corners in either order.                                   *)
(***************************************************************************)
ClipMargin == 2

ClipCoords == (0 - ClipMargin)..(Max(MaxW, MaxH) + ClipMargin)

InitClip ==
    /\ MainApp_init(None)
    /\ \E w \in 1..MaxW, h \in 1..MaxH : f_img = BlankImage(w, h)
    /\ \E xmin \in ClipCoords, ymin \in ClipCoords, xmax \in ClipCoords, ymax \in ClipCoords :
          f_dets = << Det(NameMold, <<xmin, ymin, xmax, ymax>>, 90) >>
    /\ f_thr = CONFIDENCE_THRESHOLD
    /\ f_out = None
    /\ p_in = None
    /\ p_out = None

DrawClipped ==
    /\ f_out = None
    /\ f_out' = draw_detections_and_classify(f_img, f_dets, f_thr)
    /\ UNCHANGED <<appvars, f_img, f_dets, f_thr, purevars>>

NextClip == DrawClipped

SpecClip == InitClip /\ [][NextClip]_vars

\* C24: every rectangle that is drawn lies inside the image and has its
\* corners in order: 0 <= xmin < xmax <= W - 1 and 0 <= ymin < ymax <= H - 1,
\* whatever the coordinates of the input box.
C24_DrawnInsideImage ==
    f_out # None =>
        \A j \in 1..Len(f_out.img_display.drawn) :
            LET box == f_out.img_display.drawn[j].box
            IN  /\ 0 <= box[1]
                /\ box[1] < box[3]
                /\ box[3] <= f_img.w - 1
                /\ 0 <= box[2]
                /\ box[2] < box[4]
                /\ box[4] <= f_img.h - 1

\* A rectangle was drawn for a box that sticks out of the image on the
\* upper left and on the lower right.
C24_Witness ==
    /\ f_out # None
    /\ Len(f_out.img_display.drawn) = 1
    /\ f_dets[1].bbox[1] < 0
    /\ f_dets[1].bbox[2] < 0
    /\ f_dets[1].bbox[3] > f_img.w - 1
    /\ f_dets[1].bbox[4] > f_img.h - 1
    /\ f_out.img_display.drawn[1].box = <<0, 0, f_img.w - 1, f_img.h - 1>>

\* Boxes entirely outside the image, and boxes with the corners swapped,
\* are among the inputs and are not drawn.
ClipSkipsOutside ==
    /\ f_out # None
    /\ f_dets[1].bbox[1] > f_img.w - 1
    /\ f_dets[1].bbox[3] < f_dets[1].bbox[1]
    /\ f_out.img_display.drawn = <<>>

====
